---------------------------- MODULE Spec2Model ----------------------------
(***************************************************************************)
(* A model of the chat-merger example bots:                                *)
(*   - the autonomous agent loop AutoGPT.arun with its optional            *)
(*     human-input tool (experiments/repo_inspector/autogpt/               *)
(*     obsolete_agent.py), one instance per inspector invocation;          *)
(*   - the read_file_bot handler and the list_repo_tool handler it calls   *)
(*     (experiments/mergedbots_copilot/repo_bots.py).                      *)
(* Texts are TLA+ strings built the way the code's f-strings build them.   *)
(***************************************************************************)
EXTENDS Integers, Sequences, FiniteSets, TLC

VARIABLES
    pc,                     \* position of each invocation's arun coroutine
    loop_count,             \* arun's local loop_count
    full_message_history,   \* AutoGPT.full_message_history (the transcript)
    memory,                 \* documents added to AutoGPT.memory
    feedback_tool,          \* TRUE iff AutoGPT.feedback_tool is not None
    assistant_reply,        \* arun's local assistant_reply
    action,                 \* arun's local action
    result,                 \* arun's local result
    memory_to_add,          \* arun's local memory_to_add
    feedback,               \* arun's local feedback
    outgoing,               \* messages the human tool yielded to its conversation
    current_inbound_msg,    \* MergedBotsHumanInputRun.current_inbound_msg.content
    retval,                 \* what arun returned, or the exception it raised
    model_calls,            \* number of chain.arun calls issued
    tool_runs,              \* number of tool.run calls made
    observation,            \* arun's local observation
    tool_exc,               \* what the latest tool.run raised ("ok" if nothing)
    incoming,               \* messages wait_for_incoming has handed to the human tool
    rf_pc,                  \* position of the read_file_bot handler
    rf_repo,                \* files list_files_in_repo finds under REPO_DIR
    rf_request,             \* message.content of the inbound message
    rf_file_list_msg,       \* the final response of list_repo_tool
    rf_file_set,            \* read_file_bot's local file_set
    rf_file_path,           \* read_file_bot's local file_path
    rf_emitted,             \* messages read_file_bot has yielded
    rf_disk_reads,          \* paths handed to Path(...).read_text
    ri_pc,                  \* position of the repo_inspector_func handler
    ri_conversation,        \* message.get_full_conversion() of the inbound message
    ri_emitted              \* messages repo_inspector_func has yielded

agent_vars == <<pc, loop_count, full_message_history, memory, feedback_tool,
                assistant_reply, action, result, memory_to_add, feedback,
                outgoing, current_inbound_msg, retval, model_calls, tool_runs,
                observation, tool_exc, incoming>>

rf_vars == <<rf_pc, rf_repo, rf_request, rf_file_list_msg, rf_file_set,
             rf_file_path, rf_emitted, rf_disk_reads>>

ri_vars == <<ri_pc, ri_conversation, ri_emitted>>

vars == <<agent_vars, rf_vars, ri_vars>>

(***************************************************************************)
(* Bounds.                                                                 *)
(***************************************************************************)
\* arun's while-True loop has no limit; the model stops issuing model calls
\* after MaxIter iterations.
MaxIter == 2

\* Inspector invocations that can exist side by side, each with its own agent.
Invocations == {1, 2}

\* The single invocation that runs under Spec.
Solo == {1}

(***************************************************************************)
(* Constants of the agent.                                                 *)
(***************************************************************************)
FINISH_NAME == "finish"

user_input == "Determine which next command to use, and respond using the format specified above:"

\* ListRepoTool.name
ListRepoToolName == "list_repo"

\* self.tools as repo_inspector_func builds it: ListRepoTool and ReadFileTool.
ToolNames == {ListRepoToolName, "read_file"}

\* MergedBotsHumanInputRun.name
HumanToolName == "Human"

StopTokensBroken == {"q"}

\* The feedback values that end the run.
StopTokens == {"q", "stop"}

HumanMessage(content) == [role |-> "human", content |-> content]
AIMessage(content) == [role |-> "ai", content |-> content]
SystemMessage(content) == [role |-> "system", content |-> content]
Document(page_content) == [page_content |-> page_content]

(***************************************************************************)
(* The replies the language model can give, as raw text.                   *)
(***************************************************************************)
ReplyFinishDone == "{\"command\": {\"name\": \"finish\", \"args\": {\"response\": \"Done\"}}}"
ReplyFinishBye == "{\"command\": {\"name\": \"finish\", \"args\": {\"response\": \"Bye\"}}}"
ReplyFinishNoResponse == "{\"command\": {\"name\": \"finish\", \"args\": {}}}"
ReplyListRepo == "{\"command\": {\"name\": \"list_repo\", \"args\": {}}}"
ReplyReadFile == "{\"command\": {\"name\": \"read_file\", \"args\": {\"file_path\": \"a.py\"}}}"
ReplyHuman == "{\"command\": {\"name\": \"Human\", \"args\": {\"query\": \"help\"}}}"
ReplyBogus == "{\"command\": {\"name\": \"bogus\", \"args\": {}}}"
ReplyErrorName == "{\"command\": {\"name\": \"ERROR\", \"args\": {}}}"
ReplyIncomplete == "{\"command\": {\"name\": \"read_file\"}}"
ReplyNotJson == "I think I should read a file"

Replies == {ReplyFinishDone, ReplyFinishBye, ReplyFinishNoResponse, ReplyListRepo,
            ReplyReadFile, ReplyHuman, ReplyBogus, ReplyErrorName, ReplyIncomplete,
            ReplyNotJson}

\* What the human can answer.
Feedbacks == {"q", "stop", "Stop", "go on"}

\* The argument mapping of an action with no arguments; repr is str(args).
NoArgs == [repr |-> "{}"]

AutoGPTAction(name, args) == [name |-> name, args |-> args]

\* The argument mapping of the parser's "ERROR" action: {"error": <failure text>}.
ErrorArgs(failure) == [error |-> failure, repr |-> "{'error': '" \o failure \o "'}"]

\* output_parser.parse: a reply that is not JSON, or JSON without the command's
\* name and args, comes back as an action named "ERROR" whose args hold the
\* failure text; anything else as the action the JSON declares.
parse(text) ==
    CASE text = ReplyFinishDone ->
            AutoGPTAction("finish", [response |-> "Done", repr |-> "{'response': 'Done'}"])
      [] text = ReplyFinishBye ->
            AutoGPTAction("finish", [response |-> "Bye", repr |-> "{'response': 'Bye'}"])
      [] text = ReplyFinishNoResponse -> AutoGPTAction("finish", NoArgs)
      [] text = ReplyListRepo -> AutoGPTAction("list_repo", NoArgs)
      [] text = ReplyReadFile ->
            AutoGPTAction("read_file", [file_path |-> "a.py", repr |-> "{'file_path': 'a.py'}"])
      [] text = ReplyHuman ->
            AutoGPTAction("Human", [query |-> "help", repr |-> "{'query': 'help'}"])
      [] text = ReplyBogus -> AutoGPTAction("bogus", NoArgs)
      [] text = ReplyErrorName -> AutoGPTAction("ERROR", NoArgs)
      [] text = ReplyIncomplete -> AutoGPTAction("ERROR", ErrorArgs("Incomplete command args: " \o text))
      [] OTHER -> AutoGPTAction("ERROR", ErrorArgs("Could not parse invalid json: " \o text))


(***************************************************************************)
(* Tool dispatch.                                                          *)
(***************************************************************************)
\* What tool.run can do: return its text, raise pydantic's ValidationError,
\* or raise another Exception (the read-file tool's missing file).
RunOutcomes == {"ok", "ValidationError", "FileNotFoundError"}

\* str(e) of what tool.run raised.
ExcText(outcome) ==
    IF outcome = "ValidationError" THEN "1 validation error for ReadFileInput"
    ELSE "[Errno 2] No such file or directory"

\* The text a tool returns when it succeeds.
ToolOutput(name) ==
    IF name = ListRepoToolName
    THEN "Here is the complete list of files that can be found in mergedbots repo:\na.py\nb.py"
    ELSE "print('a')"

\* The try/except around tool.run: the observation for each outcome.
Observation(name, args, outcome) ==
    CASE outcome = "ok" -> ToolOutput(name)
      [] outcome = "ValidationError" ->
            "Validation Error in args: " \o ExcText(outcome) \o ", args: " \o args.repr
      [] OTHER ->
            "Error: " \o ExcText(outcome) \o ", " \o outcome \o ", args: " \o args.repr

\* A variant whose except clauses catch only the validation failure.
CaughtOnlyValidation(outcome) == outcome \in {"ok", "ValidationError"}

\* Whether the try/except turns the outcome into an observation: the two
\* except clauses catch ValidationError and every other Exception.
Caught(outcome) == outcome \in {"ok", "ValidationError", "FileNotFoundError"}

\* A variant that treats the parser's "ERROR" action as an unknown command.
ResultOfNoErrorBranch(act, outcome) ==
    IF act.name \in ToolNames
    THEN "Command " \o act.name \o " returned: " \o Observation(act.name, act.args, outcome)
    ELSE "Unknown command '" \o act.name \o "'. "
            \o "Please refer to the 'COMMANDS' list for available "
            \o "commands and only respond in the specified JSON format."

\* A variant that answers an unknown command like a parse failure.
ResultOfNoUnknownBranch(act, outcome) ==
    IF act.name \in ToolNames
    THEN "Command " \o act.name \o " returned: " \o Observation(act.name, act.args, outcome)
    ELSE "Error: " \o act.args.repr \o ". "

\* The if/elif/else that computes result for an action that is not finish.
ResultOf(act, outcome) ==
    IF act.name \in ToolNames
    THEN "Command " \o act.name \o " returned: " \o Observation(act.name, act.args, outcome)
    ELSE IF act.name = "ERROR"
    THEN "Error: " \o act.args.repr \o ". "
    ELSE "Unknown command '" \o act.name \o "'. "
            \o "Please refer to the 'COMMANDS' list for available "
            \o "commands and only respond in the specified JSON format."

\* The code fence of the query (three grave accents in the code, which a
\* module's strings cannot hold).
Fence == "~~~"

\* The query arun hands to the human tool.
Fenced(text) == Fence \o "\n" \o text \o "\n" \o Fence

(***************************************************************************)
(* The agent loop, one coroutine per invocation.                           *)
(***************************************************************************)
\* The command names from_llm_and_tools puts in the prompt's command list: the
\* registered tools, and the human-input tool when one is passed.
Advertised(i) ==
    IF feedback_tool[i] THEN ToolNames \cup {HumanToolName} ELSE ToolNames

\* AutoGPT.__init__ and the locals of an arun that has not started.
AgentFresh ==
    /\ loop_count = [i \in Invocations |-> 0]
    /\ full_message_history = [i \in Invocations |-> << >>]
    /\ memory = [i \in Invocations |-> << >>]
    /\ assistant_reply = [i \in Invocations |-> ""]
    /\ action = [i \in Invocations |-> AutoGPTAction("", NoArgs)]
    /\ result = [i \in Invocations |-> ""]
    /\ memory_to_add = [i \in Invocations |-> ""]
    /\ feedback = [i \in Invocations |-> ""]
    /\ outgoing = [i \in Invocations |-> << >>]
    /\ current_inbound_msg = [i \in Invocations |-> ""]
    /\ retval = [i \in Invocations |-> [kind |-> "none", value |-> ""]]
    /\ model_calls = [i \in Invocations |-> 0]
    /\ tool_runs = [i \in Invocations |-> 0]
    /\ observation = [i \in Invocations |-> ""]
    /\ tool_exc = [i \in Invocations |-> "ok"]
    /\ incoming = [i \in Invocations |-> << >>]

\* Every invocation's agent is constructed and its arun is about to start.
AgentInit ==
    /\ pc = [i \in Invocations |-> "loop"]
    /\ AgentFresh

\* Top of the loop: count the iteration and send the prompt to the model.
Prompting(i) ==
    /\ pc[i] = "loop"
    /\ UNCHANGED <<rf_vars, ri_vars, observation, tool_exc, incoming>>
    /\ loop_count[i] < MaxIter
    /\ loop_count' = [loop_count EXCEPT ![i] = @ + 1]
    /\ model_calls' = [model_calls EXCEPT ![i] = @ + 1]
    /\ pc' = [pc EXCEPT ![i] = "awaiting_model"]
    /\ UNCHANGED <<full_message_history, memory, feedback_tool, assistant_reply,
                   action, result, memory_to_add, feedback, outgoing,
                   current_inbound_msg, retval, tool_runs>>

\* chain.arun returns: the prompt and the reply go on the transcript.
ModelReplies(i) ==
    /\ pc[i] = "awaiting_model"
    /\ UNCHANGED <<rf_vars, ri_vars, observation, tool_exc, incoming>>
    /\ \E reply \in Replies :
        /\ assistant_reply' = [assistant_reply EXCEPT ![i] = reply]
        /\ full_message_history' = [full_message_history EXCEPT ![i] =
                Append(Append(@, HumanMessage(user_input)), AIMessage(reply))]
    /\ pc' = [pc EXCEPT ![i] = "parsing"]
    /\ UNCHANGED <<loop_count, memory, feedback_tool, action, result, memory_to_add,
                   feedback, outgoing, current_inbound_msg, retval, model_calls,
                   tool_runs>>

\* action = self.output_parser.parse(assistant_reply)
Parsing(i) ==
    /\ pc[i] = "parsing"
    /\ UNCHANGED <<rf_vars, ri_vars, observation, tool_exc, incoming>>
    /\ action' = [action EXCEPT ![i] = parse(assistant_reply[i])]
    /\ pc' = [pc EXCEPT ![i] = "dispatching"]
    /\ UNCHANGED <<loop_count, full_message_history, memory, feedback_tool,
                   assistant_reply, result, memory_to_add, feedback, outgoing,
                   current_inbound_msg, retval, model_calls, tool_runs>>

\* A variant in which the finish action is dispatched like any other name.
DispatchFinishFallsThrough(i) ==
    /\ pc[i] = "dispatching"
    /\ UNCHANGED <<rf_vars, ri_vars, observation, tool_exc, incoming>>
    /\ action[i].name = FINISH_NAME
    /\ result' = [result EXCEPT ![i] = ResultOf(action[i], "ok")]
    /\ pc' = [pc EXCEPT ![i] = "dispatched"]
    /\ UNCHANGED <<loop_count, full_message_history, memory, feedback_tool,
                   assistant_reply, action, memory_to_add, feedback, outgoing,
                   current_inbound_msg, retval, model_calls, tool_runs>>

\* if action.name == FINISH_NAME: return action.args["response"]
DispatchFinish(i) ==
    /\ pc[i] = "dispatching"
    /\ UNCHANGED <<rf_vars, ri_vars, observation, tool_exc, incoming>>
    /\ action[i].name = FINISH_NAME
    /\ IF "response" \in DOMAIN action[i].args
       THEN /\ retval' = [retval EXCEPT ![i] =
                    [kind |-> "return", value |-> action[i].args.response]]
            /\ pc' = [pc EXCEPT ![i] = "returned"]
       ELSE /\ retval' = [retval EXCEPT ![i] = [kind |-> "raise", value |-> "KeyError"]]
            /\ pc' = [pc EXCEPT ![i] = "raised"]
    /\ UNCHANGED <<loop_count, full_message_history, memory, feedback_tool,
                   assistant_reply, action, result, memory_to_add, feedback,
                   outgoing, current_inbound_msg, model_calls, tool_runs>>

\* if action.name in tools: run the tool inside the try/except.
DispatchTool(i) ==
    /\ pc[i] = "dispatching"
    /\ UNCHANGED <<rf_vars, ri_vars, incoming>>
    /\ action[i].name # FINISH_NAME
    /\ action[i].name \in ToolNames
    /\ tool_runs' = [tool_runs EXCEPT ![i] = @ + 1]
    /\ \E outcome \in RunOutcomes :
        /\ tool_exc' = [tool_exc EXCEPT ![i] = outcome]
        /\ IF Caught(outcome)
           THEN /\ observation' = [observation EXCEPT ![i] =
                        Observation(action[i].name, action[i].args, outcome)]
                /\ result' = [result EXCEPT ![i] = ResultOf(action[i], outcome)]
                /\ pc' = [pc EXCEPT ![i] = "dispatched"]
                /\ UNCHANGED retval
           ELSE /\ retval' = [retval EXCEPT ![i] = [kind |-> "raise", value |-> outcome]]
                /\ pc' = [pc EXCEPT ![i] = "raised"]
                /\ UNCHANGED <<result, observation>>
    /\ UNCHANGED <<loop_count, full_message_history, memory, feedback_tool,
                   assistant_reply, action, memory_to_add, feedback, outgoing,
                   current_inbound_msg, model_calls>>

\* The elif/else branches: the "ERROR" action and the unknown command.
DispatchOther(i) ==
    /\ pc[i] = "dispatching"
    /\ UNCHANGED <<rf_vars, ri_vars, observation, tool_exc, incoming>>
    /\ action[i].name # FINISH_NAME
    /\ action[i].name \notin ToolNames
    /\ result' = [result EXCEPT ![i] = ResultOf(action[i], "ok")]
    /\ pc' = [pc EXCEPT ![i] = "dispatched"]
    /\ UNCHANGED <<loop_count, full_message_history, memory, feedback_tool,
                   assistant_reply, action, memory_to_add, feedback, outgoing,
                   current_inbound_msg, retval, model_calls, tool_runs>>

\* final_bot_response / interim_bot_response of the messaging layer.
FinalResponse(content, custom_fields) ==
    [kind |-> "final", content |-> content, custom_fields |-> custom_fields]
InterimResponse(content) == [kind |-> "interim", content |-> content]

\* A final response that carries no custom fields.
PlainFinal(content) == [kind |-> "final", content |-> content]

\* A variant that records the iteration before the human is asked.
AskHumanAfterRecording(i) ==
    /\ pc[i] = "dispatched"
    /\ UNCHANGED <<rf_vars, ri_vars, observation, tool_exc, incoming>>
    /\ memory_to_add' = [memory_to_add EXCEPT ![i] =
            "Assistant Reply: " \o assistant_reply[i] \o " \nResult: " \o result[i] \o " "]
    /\ IF feedback_tool[i]
       THEN /\ outgoing' = [outgoing EXCEPT ![i] =
                    Append(@, PlainFinal(Fenced(assistant_reply[i])))]
            /\ memory' = [memory EXCEPT ![i] = Append(@, Document(memory_to_add'[i]))]
            /\ full_message_history' = [full_message_history EXCEPT ![i] =
                    Append(@, SystemMessage(result[i]))]
            /\ pc' = [pc EXCEPT ![i] = "awaiting_human"]
       ELSE /\ pc' = [pc EXCEPT ![i] = "recording"]
            /\ UNCHANGED <<outgoing, memory, full_message_history>>
    /\ UNCHANGED <<loop_count, feedback_tool, assistant_reply, action, result,
                   feedback, current_inbound_msg, retval, model_calls, tool_runs>>

\* memory_to_add is composed; with a feedback tool, feedback_tool.arun starts:
\* MergedBotsHumanInputRun._arun yields the query as a final response and
\* waits for the next incoming message.
ComposeMemory(i) ==
    /\ pc[i] = "dispatched"
    /\ UNCHANGED <<rf_vars, ri_vars, observation, tool_exc, incoming>>
    /\ memory_to_add' = [memory_to_add EXCEPT ![i] =
            "Assistant Reply: " \o assistant_reply[i] \o " \nResult: " \o result[i] \o " "]
    /\ IF feedback_tool[i]
       THEN /\ outgoing' = [outgoing EXCEPT ![i] =
                    Append(@, PlainFinal(Fenced(assistant_reply[i])))]
            /\ pc' = [pc EXCEPT ![i] = "awaiting_human"]
       ELSE /\ pc' = [pc EXCEPT ![i] = "recording"]
            /\ UNCHANGED outgoing
    /\ UNCHANGED <<loop_count, full_message_history, memory, feedback_tool,
                   assistant_reply, action, result, feedback, current_inbound_msg,
                   retval, model_calls, tool_runs>>

\* A variant that starts the next iteration right after the feedback.
HumanRepliesContinues(i) ==
    /\ pc[i] = "awaiting_human"
    /\ UNCHANGED <<rf_vars, ri_vars, observation, tool_exc>>
    /\ \E text \in Feedbacks :
        /\ incoming' = [incoming EXCEPT ![i] = Append(@, text)]
        /\ current_inbound_msg' = [current_inbound_msg EXCEPT ![i] = text]
        /\ feedback' = [feedback EXCEPT ![i] = text]
        /\ IF text \in StopTokens
           THEN /\ retval' = [retval EXCEPT ![i] = [kind |-> "return", value |-> "EXITING"]]
                /\ pc' = [pc EXCEPT ![i] = "returned"]
                /\ UNCHANGED memory_to_add
           ELSE /\ memory_to_add' = [memory_to_add EXCEPT ![i] = @ \o "\n" \o text]
                /\ pc' = [pc EXCEPT ![i] = "loop"]
                /\ UNCHANGED retval
    /\ UNCHANGED <<loop_count, full_message_history, memory, feedback_tool,
                   assistant_reply, action, result, outgoing, model_calls, tool_runs>>

\* A variant that takes the human's feedback but leaves it out of the memory
\* document.
HumanRepliesDropsFeedback(i) ==
    /\ pc[i] = "awaiting_human"
    /\ UNCHANGED <<rf_vars, ri_vars, observation, tool_exc>>
    /\ \E text \in Feedbacks :
        /\ incoming' = [incoming EXCEPT ![i] = Append(@, text)]
        /\ current_inbound_msg' = [current_inbound_msg EXCEPT ![i] = text]
        /\ feedback' = [feedback EXCEPT ![i] = text]
        /\ IF text \in StopTokens
           THEN /\ retval' = [retval EXCEPT ![i] = [kind |-> "return", value |-> "EXITING"]]
                /\ pc' = [pc EXCEPT ![i] = "returned"]
           ELSE /\ pc' = [pc EXCEPT ![i] = "recording"]
                /\ UNCHANGED retval
    /\ UNCHANGED <<loop_count, full_message_history, memory, feedback_tool,
                   assistant_reply, action, result, outgoing, model_calls, tool_runs,
                   memory_to_add>>

\* A variant whose wait for the human gives up after a while: the loop goes on
\* with an empty feedback although no reply has arrived.
HumanRepliesOrTimesOut(i) ==
    /\ pc[i] = "awaiting_human"
    /\ UNCHANGED <<rf_vars, ri_vars, observation, tool_exc>>
    /\ \/ \E text \in Feedbacks :
            /\ incoming' = [incoming EXCEPT ![i] = Append(@, text)]
            /\ current_inbound_msg' = [current_inbound_msg EXCEPT ![i] = text]
            /\ feedback' = [feedback EXCEPT ![i] = text]
            /\ IF text \in StopTokens
               THEN /\ retval' = [retval EXCEPT ![i] =
                            [kind |-> "return", value |-> "EXITING"]]
                    /\ pc' = [pc EXCEPT ![i] = "returned"]
                    /\ UNCHANGED memory_to_add
               ELSE /\ memory_to_add' = [memory_to_add EXCEPT ![i] = @ \o "\n" \o text]
                    /\ pc' = [pc EXCEPT ![i] = "recording"]
                    /\ UNCHANGED retval
       \/ /\ feedback' = [feedback EXCEPT ![i] = ""]
          /\ pc' = [pc EXCEPT ![i] = "recording"]
          /\ UNCHANGED <<incoming, current_inbound_msg, memory_to_add, retval>>
    /\ UNCHANGED <<loop_count, full_message_history, memory, feedback_tool,
                   assistant_reply, action, result, outgoing, model_calls, tool_runs>>

\* wait_for_incoming returns: _arun returns the human's text as the feedback;
\* a stop token ends the run, anything else is added to memory_to_add.
HumanReplies(i) ==
    /\ pc[i] = "awaiting_human"
    /\ UNCHANGED <<rf_vars, ri_vars, observation, tool_exc>>
    /\ \E text \in Feedbacks :
        /\ incoming' = [incoming EXCEPT ![i] = Append(@, text)]
        /\ current_inbound_msg' = [current_inbound_msg EXCEPT ![i] = text]
        /\ feedback' = [feedback EXCEPT ![i] = text]
        /\ IF text \in StopTokens
           THEN /\ retval' = [retval EXCEPT ![i] = [kind |-> "return", value |-> "EXITING"]]
                /\ pc' = [pc EXCEPT ![i] = "returned"]
                /\ UNCHANGED memory_to_add
           ELSE /\ memory_to_add' = [memory_to_add EXCEPT ![i] = @ \o "\n" \o text]
                /\ pc' = [pc EXCEPT ![i] = "recording"]
                /\ UNCHANGED retval
    /\ UNCHANGED <<loop_count, full_message_history, memory, feedback_tool,
                   assistant_reply, action, result, outgoing, model_calls, tool_runs>>

\* A variant that prunes the transcript to its three newest entries when it
\* appends the observation.
RecordingPrunesTranscript(i) ==
    /\ pc[i] = "recording"
    /\ UNCHANGED <<rf_vars, ri_vars, observation, tool_exc, incoming>>
    /\ memory' = [memory EXCEPT ![i] = Append(@, Document(memory_to_add[i]))]
    /\ full_message_history' = [full_message_history EXCEPT ![i] =
            LET grown == Append(@, SystemMessage(result[i]))
            IN  SubSeq(grown, Len(grown) - 2, Len(grown))]
    /\ pc' = [pc EXCEPT ![i] = "loop"]
    /\ UNCHANGED <<loop_count, feedback_tool, assistant_reply, action, result,
                   memory_to_add, feedback, outgoing, current_inbound_msg, retval,
                   model_calls, tool_runs>>

\* A variant in which all invocations share one memory store: the document of
\* invocation i's iteration lands in every invocation's memory.
RecordingSharedMemory(i) ==
    /\ pc[i] = "recording"
    /\ UNCHANGED <<rf_vars, ri_vars, observation, tool_exc, incoming>>
    /\ memory' = [j \in Invocations |-> Append(memory[j], Document(memory_to_add[i]))]
    /\ full_message_history' = [full_message_history EXCEPT ![i] =
            Append(@, SystemMessage(result[i]))]
    /\ pc' = [pc EXCEPT ![i] = "loop"]
    /\ UNCHANGED <<loop_count, feedback_tool, assistant_reply, action, result,
                   memory_to_add, feedback, outgoing, current_inbound_msg, retval,
                   model_calls, tool_runs>>

\* A variant that adds the memory document but not the observation.
RecordingMemoryOnly(i) ==
    /\ pc[i] = "recording"
    /\ UNCHANGED <<rf_vars, ri_vars, observation, tool_exc, incoming>>
    /\ memory' = [memory EXCEPT ![i] = Append(@, Document(memory_to_add[i]))]
    /\ pc' = [pc EXCEPT ![i] = "loop"]
    /\ UNCHANGED <<loop_count, full_message_history, feedback_tool, assistant_reply,
                   action, result, memory_to_add, feedback, outgoing,
                   current_inbound_msg, retval, model_calls, tool_runs>>

\* The last two statements of the loop body: the memory document is added and
\* the observation goes on the transcript as a system message.
Recording(i) ==
    /\ pc[i] = "recording"
    /\ UNCHANGED <<rf_vars, ri_vars, observation, tool_exc, incoming>>
    /\ memory' = [memory EXCEPT ![i] = Append(@, Document(memory_to_add[i]))]
    /\ full_message_history' = [full_message_history EXCEPT ![i] =
            Append(@, SystemMessage(result[i]))]
    /\ pc' = [pc EXCEPT ![i] = "loop"]
    /\ UNCHANGED <<loop_count, feedback_tool, assistant_reply, action, result,
                   memory_to_add, feedback, outgoing, current_inbound_msg, retval,
                   model_calls, tool_runs>>

\* One step of invocation i's arun.
arun(i) ==
    \/ Prompting(i)
    \/ ModelReplies(i)
    \/ Parsing(i)
    \/ DispatchFinish(i)
    \/ DispatchTool(i)
    \/ DispatchOther(i)
    \/ ComposeMemory(i)
    \/ HumanReplies(i)
    \/ Recording(i)

(***************************************************************************)
(* read_file_bot and the list_repo_tool handler it fulfils.                *)
(***************************************************************************)
\* The repository-relative paths list_files_in_repo can find, in its order.
RepoListing == <<"a.py", "b.py", "docs/c.md">>

RepoFiles == {RepoListing[k] : k \in 1..Len(RepoListing)}

\* What the extractor chain can answer: a listed path, nothing, a path that
\* is in no listing, a path with a traversal segment, an absolute path.
ExtractorOutputs == RepoFiles \cup {"", "c.py", "../secret.txt", "/etc/passwd"}

\* The inbound message's content.
Requests == {"show me a.py", "hello"}

\* REPO_DIR as path segments: the directory mergedbots beside the checkout
\* (the checkout's parent stands as "srv").
REPO_DIR == <<"srv", "mergedbots">>

\* A path string as pathlib sees it: absolute or not, and its segments.
PathParts(file_path) ==
    CASE file_path = "" -> [absolute |-> FALSE, parts |-> << >>]
      [] file_path = "a.py" -> [absolute |-> FALSE, parts |-> <<"a.py">>]
      [] file_path = "b.py" -> [absolute |-> FALSE, parts |-> <<"b.py">>]
      [] file_path = "c.py" -> [absolute |-> FALSE, parts |-> <<"c.py">>]
      [] file_path = "docs/c.md" -> [absolute |-> FALSE, parts |-> <<"docs", "c.md">>]
      [] file_path = "../secret.txt" -> [absolute |-> FALSE, parts |-> <<"..", "secret.txt">>]
      [] file_path = "/etc/passwd" -> [absolute |-> TRUE, parts |-> <<"etc", "passwd">>]

\* Path(REPO_DIR, file_path): an absolute second argument replaces the first.
PathJoin(root, file_path) ==
    IF PathParts(file_path).absolute THEN PathParts(file_path).parts
    ELSE root \o PathParts(file_path).parts

RECURSIVE Resolved(_, _)
\* The file the operating system opens for a path: each ".." leaves the
\* directory reached so far. Resolved(done, rest) walks the segments of rest.
Resolved(done, rest) ==
    IF rest = << >> THEN done
    ELSE IF Head(rest) = ".."
    THEN Resolved(IF done = << >> THEN << >> ELSE SubSeq(done, 1, Len(done) - 1), Tail(rest))
    ELSE Resolved(Append(done, Head(rest)), Tail(rest))

\* The file that Path(REPO_DIR, file_path).read_text opens.
ReadLocation(file_path) == Resolved(<< >>, PathJoin(REPO_DIR, file_path))

\* Path(REPO_DIR, file_path).read_text(encoding="utf-8") for a listed file.
ReadText(file_path) == "text of mergedbots/" \o file_path

RECURSIVE Join(_)
\* "\n".join(strings)
Join(strings) ==
    IF strings = << >> THEN ""
    ELSE IF Len(strings) = 1 THEN strings[1]
    ELSE strings[1] \o "\n" \o Join(Tail(strings))

\* list_repo_tool: the one final response, with the raw list as custom field.
list_repo_tool(repo) ==
    LET file_list_strings == SelectSeq(RepoListing, LAMBDA f : f \in repo)
    IN  << FinalResponse(
              "Here is the complete list of files that can be found in mergedbots repo:\n"
                  \o Fence \o "\n" \o Join(file_list_strings) \o "\n" \o Fence,
              [file_list |-> file_list_strings]) >>

\* set(file_list_msg.custom_fields["file_list"])
SetOf(seq) == {seq[k] : k \in 1..Len(seq)}

\* A variant that accepts whatever non-empty path the extractor names.
IsKnownFileNoMembership(file_path, file_set) == file_path # ""

\* if file_path and file_path in file_set
IsKnownFile(file_path, file_set) == file_path # "" /\ file_path \in file_set

\* The handler before it runs: any file tree, any request.
RfInit ==
    /\ rf_pc = "start"
    /\ rf_repo \in SUBSET RepoFiles
    /\ rf_request \in Requests
    /\ rf_file_list_msg = PlainFinal("")
    /\ rf_file_set = {}
    /\ rf_file_path = ""
    /\ rf_emitted = << >>
    /\ rf_disk_reads = << >>

\* The handler fulfils list_repo_tool, keeps its last response and the set of
\* its file list, and sends the extraction prompt to the model.
RfListFiles ==
    /\ rf_pc = "start"
    /\ UNCHANGED <<agent_vars, ri_vars>>
    /\ LET responses == list_repo_tool(rf_repo)
           last == responses[Len(responses)]
       IN  /\ rf_file_list_msg' = last
           /\ rf_file_set' = SetOf(last.custom_fields.file_list)
    /\ rf_pc' = "awaiting_extractor"
    /\ UNCHANGED <<rf_repo, rf_request, rf_file_path, rf_emitted, rf_disk_reads>>

\* A variant that does not announce the path before the file is read.
RfExtractedNoInterim ==
    /\ rf_pc = "awaiting_extractor"
    /\ UNCHANGED <<agent_vars, ri_vars>>
    /\ \E file_path \in ExtractorOutputs :
        /\ rf_file_path' = file_path
        /\ IF IsKnownFile(file_path, rf_file_set)
           THEN /\ UNCHANGED rf_emitted
                /\ rf_pc' = "reading"
           ELSE /\ rf_emitted' = Append(rf_emitted,
                        FinalResponse("Please specify a file you want to read.",
                                      [success |-> FALSE]))
                /\ rf_pc' = "done"
    /\ UNCHANGED <<rf_repo, rf_request, rf_file_list_msg, rf_file_set, rf_disk_reads>>

\* llm_chain.arun returns the extracted path; the handler runs to its next
\* yield: the interim response with the path, or the final fallback.
RfExtracted ==
    /\ rf_pc = "awaiting_extractor"
    /\ UNCHANGED <<agent_vars, ri_vars>>
    /\ \E file_path \in ExtractorOutputs :
        /\ rf_file_path' = file_path
        /\ IF IsKnownFile(file_path, rf_file_set)
           THEN /\ rf_emitted' = Append(rf_emitted, InterimResponse(file_path))
                /\ rf_pc' = "reading"
           ELSE /\ rf_emitted' = Append(rf_emitted,
                        FinalResponse("Please specify a file you want to read.",
                                      [success |-> FALSE]))
                /\ rf_pc' = "done"
    /\ UNCHANGED <<rf_repo, rf_request, rf_file_list_msg, rf_file_set, rf_disk_reads>>

\* The handler is resumed after the interim response: it reads the file under
\* REPO_DIR and yields its text as the final response.
RfReadFile ==
    /\ rf_pc = "reading"
    /\ UNCHANGED <<agent_vars, ri_vars>>
    /\ rf_disk_reads' = Append(rf_disk_reads, rf_file_path)
    /\ rf_emitted' = Append(rf_emitted,
            FinalResponse(ReadText(rf_file_path), [success |-> TRUE]))
    /\ rf_pc' = "done"
    /\ UNCHANGED <<rf_repo, rf_request, rf_file_list_msg, rf_file_set, rf_file_path>>

read_file_bot == RfListFiles \/ RfExtracted \/ RfReadFile

(***************************************************************************)
(* Specifications.                                                         *)
(***************************************************************************)
\* No read_file_bot run is in progress.
RfIdle ==
    /\ rf_pc = "idle"
    /\ rf_repo = {}
    /\ rf_request = ""
    /\ rf_file_list_msg = PlainFinal("")
    /\ rf_file_set = {}
    /\ rf_file_path = ""
    /\ rf_emitted = << >>
    /\ rf_disk_reads = << >>

\* No repo_inspector_func run is in progress.
RiIdle ==
    /\ ri_pc = "idle"
    /\ ri_conversation = << >>
    /\ ri_emitted = << >>

\* One agent run, with or without a human-input tool.
Init ==
    /\ AgentInit
    /\ feedback_tool \in [Invocations -> BOOLEAN]
    /\ \A i \in Invocations \ Solo : ~feedback_tool[i]
    /\ RfIdle
    /\ RiIdle

Next == \E i \in Solo : arun(i)

Spec == Init /\ [][Next]_vars

(***************************************************************************)
(* Two invocations at once: each has its own agent object, and the event    *)
(* loop interleaves them at every await.  The model replies and the human   *)
(* feedback are drawn from the subsets below, one iteration each.           *)
(***************************************************************************)
ConcMaxIter == 1

ConcReplies == {ReplyFinishDone, ReplyListRepo, ReplyNotJson}

ConcFeedbacks == {"stop", "go on"}

ConcPrompting(i) ==
    /\ loop_count[i] < ConcMaxIter
    /\ Prompting(i)

ConcModelReplies(i) ==
    /\ ModelReplies(i)
    /\ assistant_reply'[i] \in ConcReplies

ConcHumanReplies(i) ==
    /\ HumanReplies(i)
    /\ feedback'[i] \in ConcFeedbacks

\* One step of invocation i's arun while another invocation may be under way.
ConcArun(i) ==
    \/ ConcPrompting(i)
    \/ ConcModelReplies(i)
    \/ Parsing(i)
    \/ DispatchFinish(i)
    \/ DispatchTool(i)
    \/ DispatchOther(i)
    \/ ComposeMemory(i)
    \/ ConcHumanReplies(i)
    \/ Recording(i)

ConcInit ==
    /\ AgentInit
    /\ feedback_tool \in [Invocations -> BOOLEAN]
    /\ RfIdle
    /\ RiIdle

ConcNext == \E i \in Invocations : ConcArun(i)

ConcSpec == ConcInit /\ [][ConcNext]_vars

(***************************************************************************)
(* repo_inspector_func: one run of the handler for one inbound message.    *)
(* The agent it builds has no human-input tool; its run() is the loop of    *)
(* arun without the feedback step.                                         *)
(***************************************************************************)
\* The name of the chat model in use; its value is set outside these files.
SLOW_GPT_MODEL == "SLOW_GPT_MODEL"

\* get_full_conversion() of the inbound message: nothing, or the messages of
\* the conversation so far.
Conversations == {<< >>, << "what does this repo do?" >>}

\* The inline-code marks around the model name (one grave accent each in the
\* code).
InlineCode(text) == "~" \o text \o "~"

\* service_followup_as_final_response / service_followup_for_user of the
\* messaging layer.
ServiceFinalResponse(content) == [kind |-> "final", service |-> TRUE, content |-> content]
ServiceFollowup(content) == [kind |-> "service", content |-> content]

\* The agent's fields other than pc.
agent_data == <<loop_count, full_message_history, memory, feedback_tool,
                assistant_reply, action, result, memory_to_add, feedback,
                outgoing, current_inbound_msg, retval, model_calls, tool_runs,
                observation, tool_exc, incoming>>

\* Up to the first yield: the restart notice for an empty conversation, or
\* else the tools, the vector store and the notice naming the model.
RiStart ==
    /\ ri_pc = "start"
    /\ IF ri_conversation = << >>
       THEN /\ ri_emitted' = Append(ri_emitted,
                    ServiceFinalResponse(Fenced("CONVERSATION RESTARTED")))
            /\ ri_pc' = "done"
       ELSE /\ ri_emitted' = Append(ri_emitted,
                    ServiceFollowup(InlineCode(SLOW_GPT_MODEL)))
            /\ ri_pc' = "announced"
    /\ UNCHANGED <<agent_vars, rf_vars, ri_conversation>>

\* AutoGPT.from_llm_and_tools and the call of agent.run.
RiBuildAgent ==
    /\ ri_pc = "announced"
    /\ ri_pc' = "running"
    /\ pc' = [pc EXCEPT ![1] = "loop"]
    /\ UNCHANGED <<agent_data, rf_vars, ri_conversation, ri_emitted>>

\* One step of the agent's run; the agent's pc lets it step only between
\* RiBuildAgent and the end of the run.
RiAgentRun ==
    \/ Prompting(1)
    \/ ModelReplies(1)
    \/ Parsing(1)
    \/ DispatchFinish(1)
    \/ DispatchTool(1)
    \/ DispatchOther(1)
    \/ ComposeMemory(1)
    \/ Recording(1)

\* agent.run returned: its value goes out as the final response.
RiFinalResponse ==
    /\ ri_pc = "running"
    /\ pc[1] = "returned"
    /\ ri_emitted' = Append(ri_emitted, PlainFinal(retval[1].value))
    /\ ri_pc' = "done"
    /\ UNCHANGED <<agent_vars, rf_vars, ri_conversation>>

\* agent.run raised: the exception leaves the handler before the last yield.
RiRaised ==
    /\ ri_pc = "running"
    /\ pc[1] = "raised"
    /\ ri_pc' = "raised"
    /\ UNCHANGED <<agent_vars, rf_vars, ri_conversation, ri_emitted>>

RiInit ==
    /\ ri_pc = "start"
    /\ ri_conversation \in Conversations
    /\ ri_emitted = << >>

InspectorInit ==
    /\ pc = [i \in Invocations |-> "unbuilt"]
    /\ AgentFresh
    /\ feedback_tool = [i \in Invocations |-> FALSE]
    /\ RfIdle
    /\ RiInit

repo_inspector_func ==
    \/ RiStart
    \/ RiBuildAgent
    \/ RiAgentRun
    \/ RiFinalResponse
    \/ RiRaised

InspectorNext == repo_inspector_func

InspectorSpec == InspectorInit /\ [][InspectorNext]_vars

\* One read_file_bot run; no agent runs.
RfSpecInit ==
    /\ AgentInit
    /\ feedback_tool = [i \in Invocations |-> FALSE]
    /\ RfInit
    /\ RiIdle

RfNext == read_file_bot

RfSpec == RfSpecInit /\ [][RfNext]_vars

(***************************************************************************)
(* Properties of the agent loop (checked under Spec).                      *)
(***************************************************************************)
\* The number of observation (system-role) entries on i's transcript.
Observations(i) ==
    Len(SelectSeq(full_message_history[i], LAMBDA m : m.role = "system"))

Last(seq) == seq[Len(seq)]

\* The memory text the code composes from a reply and a result.
ReplyAndResult(reply, res) == "Assistant Reply: " \o reply \o " \nResult: " \o res \o " "

\* The positions at which the current iteration has not been recorded yet.
MidIteration ==
    {"awaiting_model", "parsing", "dispatching", "dispatched", "awaiting_human",
     "recording"}

\* C1 as stated: every iteration of the loop, also the one that ends the run,
\* has inserted exactly one memory document and appended exactly one
\* observation once it is over.
C1_EveryIterationRecorded ==
    \A i \in Invocations :
        pc[i] \in {"loop", "returned"} =>
            /\ Len(memory[i]) = loop_count[i]
            /\ Observations(i) = loop_count[i]

\* C1 amended: every iteration that does not end the run has inserted exactly
\* one memory document and appended exactly one observation, whatever the
\* action did; the iteration in progress and the iteration that ends the run
\* (finish, stop token, escaped exception) have recorded nothing.
C1_ContinuingIterationsRecorded ==
    \A i \in Invocations :
        /\ pc[i] = "loop" =>
            /\ Len(memory[i]) = loop_count[i]
            /\ Observations(i) = loop_count[i]
            /\ Len(full_message_history[i]) = 3 * loop_count[i]
        /\ pc[i] \in MidIteration \cup {"returned", "raised"} =>
            /\ Len(memory[i]) = loop_count[i] - 1
            /\ Observations(i) = loop_count[i] - 1
            /\ Len(full_message_history[i]) = 3 * loop_count[i] - 1
                    - (IF pc[i] = "awaiting_model" THEN 2 ELSE 0)

\* Two iterations are over, the second one after a tool raised, and both are
\* recorded.
C1_Witness ==
    /\ pc[1] = "loop"
    /\ loop_count[1] = 2
    /\ tool_exc[1] = "FileNotFoundError"
    /\ Len(memory[1]) = 2
    /\ Observations(1) = 2

\* C2: when the parsed action is finish with a response argument, the dispatch
\* step returns that argument verbatim, and after a return the run makes no
\* further model call and changes nothing.
C2_FinishReturnsResponse ==
    [][\A i \in Invocations :
        /\ ( /\ pc[i] = "dispatching"
             /\ pc'[i] # "dispatching"
             /\ action[i].name = "finish"
             /\ "response" \in DOMAIN action[i].args )
           => /\ pc'[i] = "returned"
              /\ retval'[i] = [kind |-> "return", value |-> action[i].args.response]
              /\ model_calls'[i] = model_calls[i]
        /\ pc[i] = "returned"
           => /\ pc'[i] = "returned"
              /\ retval'[i] = retval[i]
              /\ model_calls'[i] = model_calls[i]]_vars

\* The model said finish in its second reply and the run returned "Bye".
C2_Witness ==
    /\ pc[1] = "returned"
    /\ loop_count[1] = 2
    /\ assistant_reply[1] = ReplyFinishBye
    /\ retval[1] = [kind |-> "return", value |-> "Bye"]
    /\ model_calls[1] = 2

\* C3: when the human's feedback is "q" or "stop" the run returns "EXITING" in
\* that very step, and from then on no memory document is inserted, no
\* transcript entry is appended and no model call is made.
C3_StopTokenExits ==
    [][\A i \in Invocations :
        /\ ( /\ pc[i] = "awaiting_human"
             /\ Len(incoming'[i]) = Len(incoming[i]) + 1
             /\ Last(incoming'[i]) \in {"q", "stop"} )
           => /\ pc'[i] = "returned"
              /\ retval'[i] = [kind |-> "return", value |-> "EXITING"]
              /\ memory'[i] = memory[i]
              /\ full_message_history'[i] = full_message_history[i]
              /\ model_calls'[i] = model_calls[i]
        /\ (pc[i] = "returned" /\ retval[i].value = "EXITING")
           => /\ pc'[i] = "returned"
              /\ memory'[i] = memory[i]
              /\ full_message_history'[i] = full_message_history[i]
              /\ model_calls'[i] = model_calls[i]]_vars

\* The human stopped the run in its second iteration: one iteration is
\* recorded, the second is not.
C3_Witness ==
    /\ feedback_tool[1]
    /\ pc[1] = "returned"
    /\ feedback[1] = "stop"
    /\ retval[1] = [kind |-> "return", value |-> "EXITING"]
    /\ loop_count[1] = 2
    /\ Len(memory[1]) = 1
    /\ Len(full_message_history[1]) = 5

\* C4: an iteration runs at most one tool, and while a model call other than
\* the first is in flight the result of the action of the call before it is the
\* last entry of the transcript and is in the last memory document.
C4_RecordedBeforeNextCall ==
    \A i \in Invocations :
        /\ tool_runs[i] <= loop_count[i]
        /\ model_calls[i] = loop_count[i]
        /\ (pc[i] = "awaiting_model" /\ loop_count[i] > 1) =>
            /\ Len(memory[i]) = loop_count[i] - 1
            /\ Observations(i) = loop_count[i] - 1
            /\ Last(full_message_history[i]) = SystemMessage(result[i])
            /\ Last(memory[i]).page_content \in
                    {ReplyAndResult(assistant_reply[i], result[i])} \cup
                    {ReplyAndResult(assistant_reply[i], result[i]) \o "\n" \o f :
                        f \in Feedbacks}

\* The second model call is in flight after a tool ran in the first iteration.
C4_Witness ==
    /\ pc[1] = "awaiting_model"
    /\ loop_count[1] = 2
    /\ tool_runs[1] = 1
    /\ Len(memory[1]) = 1

\* The positions of an iteration after its action has been dispatched without
\* ending the run, up to the model call of the next iteration.
AfterDispatch == {"dispatched", "awaiting_human", "recording", "loop"}

\* The run was ended by the human's stop token.
StoppedByHuman(i) ==
    /\ pc[i] = "returned"
    /\ feedback_tool[i]
    /\ feedback[i] \in {"q", "stop"}
    /\ retval[i] = [kind |-> "return", value |-> "EXITING"]

\* The replies that are not a valid action, with the parser's failure text.
ParseFailures == {ReplyNotJson, ReplyIncomplete}

FailureText(reply) ==
    IF reply = ReplyNotJson THEN "Could not parse invalid json: " \o reply
    ELSE "Incomplete command args: " \o reply

\* The observation for a parse failure: "Error: " and the action's args.
ErrorResult(failure) == "Error: {'error': '" \o failure \o "'}. "

\* The current iteration's reply has been parsed and is a parse failure.
ParseFailed(i) ==
    /\ assistant_reply[i] \in ParseFailures
    /\ pc[i] \in {"dispatching", "returned", "raised"} \cup AfterDispatch

\* C6 as stated: an iteration whose reply cannot be parsed never ends the run,
\* and once it is over its error text is the last entry of the transcript.
C6_ParseFailureAlwaysRecorded ==
    \A i \in Invocations :
        ParseFailed(i) =>
            /\ pc[i] \notin {"returned", "raised"}
            /\ pc[i] = "loop" =>
                Last(full_message_history[i]) =
                    SystemMessage(ErrorResult(FailureText(assistant_reply[i])))

\* C6 amended: a reply that cannot be parsed never raises; it becomes the
\* action "ERROR" carrying the failure text, its result is that text, and the
\* iteration ends with the result as the last transcript entry and the loop at
\* its top, unless the human's stop token ended the run first.
C6_ParseFailureRecordedUnlessStopped ==
    \A i \in Invocations :
        ParseFailed(i) =>
            /\ action[i].name = "ERROR"
            /\ action[i].args.error = FailureText(assistant_reply[i])
            /\ pc[i] # "raised"
            /\ pc[i] \in AfterDispatch =>
                result[i] = ErrorResult(FailureText(assistant_reply[i]))
            /\ pc[i] = "loop" =>
                /\ Last(full_message_history[i]) = SystemMessage(result[i])
                /\ Observations(i) = loop_count[i]
            /\ pc[i] = "returned" => StoppedByHuman(i)

\* After a first reply that is not JSON the error is on the transcript and the
\* loop is at its top, about to ask the model again.
C6_Witness ==
    /\ pc[1] = "loop"
    /\ loop_count[1] = 1
    /\ loop_count[1] < MaxIter
    /\ assistant_reply[1] = ReplyNotJson
    /\ Last(full_message_history[1]) =
            SystemMessage("Error: {'error': 'Could not parse invalid json: I think I should read a file'}. ")

\* The current iteration dispatched a registered tool and tool.run raised.
ToolFailed(i) ==
    /\ action[i].name \in {"list_repo", "read_file"}
    /\ tool_exc[i] # "ok"
    /\ pc[i] \in {"returned", "raised"} \cup AfterDispatch

\* The observation the code builds for each class of failure.
ValidationObservation(args) ==
    "Validation Error in args: 1 validation error for ReadFileInput, args: " \o args.repr

GeneralObservation(exc, args) ==
    "Error: [Errno 2] No such file or directory, " \o exc \o ", args: " \o args.repr

\* C7 as stated: an iteration whose tool raised never ends the run, and once
\* it is over the failure's observation is the last entry of the transcript.
C7_ToolFailureAlwaysRecorded ==
    \A i \in Invocations :
        ToolFailed(i) =>
            /\ pc[i] \notin {"returned", "raised"}
            /\ pc[i] = "loop" =>
                Last(full_message_history[i]) =
                    SystemMessage("Command " \o action[i].name \o " returned: "
                                    \o observation[i])

\* C7 amended: a failure of a dispatched tool never leaves arun as an
\* exception; a validation failure becomes an observation that starts with
\* "Validation Error in args: ", any other exception one that starts with
\* "Error: "; the iteration ends with that observation's result as the last
\* transcript entry and the loop at its top, unless the human's stop token
\* ended the run first.
C7_ToolFailureRecordedUnlessStopped ==
    \A i \in Invocations :
        ToolFailed(i) =>
            /\ pc[i] # "raised"
            /\ tool_exc[i] = "ValidationError" =>
                observation[i] = ValidationObservation(action[i].args)
            /\ tool_exc[i] # "ValidationError" =>
                observation[i] = GeneralObservation(tool_exc[i], action[i].args)
            /\ result[i] = "Command " \o action[i].name \o " returned: " \o observation[i]
            /\ pc[i] = "loop" =>
                /\ Last(full_message_history[i]) = SystemMessage(result[i])
                /\ Observations(i) = loop_count[i]
            /\ pc[i] = "returned" => StoppedByHuman(i)

\* The read-file tool raised its missing-file error in the first iteration;
\* the observation is on the transcript and the loop is at its top.
C7_Witness ==
    /\ pc[1] = "loop"
    /\ loop_count[1] = 1
    /\ loop_count[1] < MaxIter
    /\ action[1].name = "read_file"
    /\ tool_exc[1] = "FileNotFoundError"
    /\ Last(full_message_history[1]).role = "system"
    /\ Last(full_message_history[1]).content = result[1]

\* The current iteration's action is neither a registered tool, nor finish,
\* nor "ERROR".
UnknownCommand(i) ==
    /\ action[i].name \notin {"list_repo", "read_file", "finish", "ERROR", ""}
    /\ pc[i] \in {"returned", "raised"} \cup AfterDispatch

UnknownCommandText(name) ==
    "Unknown command '" \o name \o "'. Please refer to the 'COMMANDS' list for "
        \o "available commands and only respond in the specified JSON format."

\* C8 as stated: an iteration whose action is an unknown command never ends
\* the run, and once it is over the "Unknown command" observation is the last
\* entry of the transcript.
C8_UnknownCommandAlwaysRecorded ==
    \A i \in Invocations :
        UnknownCommand(i) =>
            /\ pc[i] \notin {"returned", "raised"}
            /\ pc[i] = "loop" =>
                Last(full_message_history[i]) =
                    SystemMessage(UnknownCommandText(action[i].name))

\* C8 amended: an unknown command never raises; its result is the "Unknown
\* command" text naming it, and the iteration ends with that text as the last
\* transcript entry and the loop at its top, unless the human's stop token
\* ended the run first.
C8_UnknownCommandRecordedUnlessStopped ==
    \A i \in Invocations :
        UnknownCommand(i) =>
            /\ pc[i] # "raised"
            /\ pc[i] \in AfterDispatch => result[i] = UnknownCommandText(action[i].name)
            /\ pc[i] = "loop" =>
                /\ Last(full_message_history[i]) = SystemMessage(result[i])
                /\ Observations(i) = loop_count[i]
            /\ pc[i] = "returned" => StoppedByHuman(i)

\* The model named the command "bogus" in the first iteration; the observation
\* is on the transcript and the loop is at its top.
C8_Witness ==
    /\ pc[1] = "loop"
    /\ loop_count[1] = 1
    /\ loop_count[1] < MaxIter
    /\ action[1].name = "bogus"
    /\ Last(full_message_history[1]) = SystemMessage(UnknownCommandText("bogus"))

\* C10 as stated: with a human-input tool, a reply has been sent to the human
\* only if its iteration has already been recorded.
C10_SentAfterRecording ==
    \A i \in Invocations :
        feedback_tool[i] =>
            /\ Len(memory[i]) >= Len(outgoing[i])
            /\ Observations(i) >= Len(outgoing[i])

\* C10 amended: with a human-input tool, the fenced raw reply of an iteration
\* whose action is not finish is sent to the human after the dispatch and
\* before the iteration is recorded; the loop then waits, and the iteration is
\* recorded only after the human's reply has arrived and is no stop token.
C10_SentBeforeRecording ==
    \A i \in Invocations :
        /\ ~feedback_tool[i] => (outgoing[i] = << >> /\ incoming[i] = << >>)
        /\ feedback_tool[i] =>
            /\ Len(memory[i]) <= Len(incoming[i])
            /\ Len(incoming[i]) <= Len(outgoing[i])
            /\ \A k \in 1..Len(memory[i]) : incoming[i][k] \notin {"q", "stop"}
            /\ pc[i] = "awaiting_human" =>
                /\ Len(outgoing[i]) = loop_count[i]
                /\ Last(outgoing[i]) =
                        [kind |-> "final",
                         content |-> "~~~\n" \o assistant_reply[i] \o "\n~~~"]
                /\ Len(incoming[i]) = loop_count[i] - 1
                /\ Len(memory[i]) = loop_count[i] - 1
                /\ Observations(i) = loop_count[i] - 1
                /\ model_calls[i] = loop_count[i]
            /\ pc[i] # "awaiting_human" => Len(incoming[i]) = Len(outgoing[i])
            /\ pc[i] = "recording" =>
                /\ Len(incoming[i]) = loop_count[i]
                /\ Last(incoming[i]) = feedback[i]
                /\ Len(memory[i]) = loop_count[i] - 1
            /\ pc[i] = "loop" => Len(memory[i]) = Len(outgoing[i])

\* In the second iteration the reply is with the human and only the first
\* iteration is recorded.
C10_Witness ==
    /\ feedback_tool[1]
    /\ pc[1] = "awaiting_human"
    /\ loop_count[1] = 2
    /\ Len(outgoing[1]) = 2
    /\ Len(incoming[1]) = 1
    /\ Len(memory[1]) = 1

(***************************************************************************)
(* Properties of read_file_bot (checked under RfSpec).                     *)
(***************************************************************************)
FallbackText == "Please specify a file you want to read."

\* The final responses among the messages the handler has yielded.
RfFinals == SelectSeq(rf_emitted, LAMBDA m : m.kind = "final")

\* C5: every path read from disk is non-empty and one of the paths the
\* list-files handler listed in this run; when the extractor's answer is empty
\* or not listed, nothing is read and the only message is the final fallback.
C5_ReadOnlyListedFiles ==
    /\ \A k \in 1..Len(rf_disk_reads) :
            /\ rf_disk_reads[k] # ""
            /\ rf_disk_reads[k] \in rf_repo
            /\ rf_disk_reads[k] = rf_file_path
    /\ rf_pc = "reading" => (rf_file_path # "" /\ rf_file_path \in rf_repo)
    /\ (rf_pc = "done" /\ (rf_file_path = "" \/ rf_file_path \notin rf_repo)) =>
            /\ rf_disk_reads = << >>
            /\ rf_emitted = << [kind |-> "final", content |-> FallbackText,
                                custom_fields |-> [success |-> FALSE]] >>

\* The extractor named a path with a traversal segment while the repository
\* has files: nothing was read and the fallback was sent.
C5_Witness ==
    /\ rf_pc = "done"
    /\ rf_repo = {"a.py", "b.py"}
    /\ rf_file_path = "../secret.txt"
    /\ rf_disk_reads = << >>
    /\ Len(rf_emitted) = 1

InsideRoot(location) ==
    /\ Len(location) > Len(REPO_DIR)
    /\ SubSeq(location, 1, Len(REPO_DIR)) = REPO_DIR

\* C11: every file the handler reads is one of the listed repository-relative
\* paths and lies inside REPO_DIR, whatever the extractor answered; a finished
\* run has either sent the text of such a file or the fallback.
C11_NeverReadsOutsideRoot ==
    /\ \A k \in 1..Len(rf_disk_reads) :
            /\ rf_disk_reads[k] \in rf_repo
            /\ InsideRoot(ReadLocation(rf_disk_reads[k]))
    /\ rf_pc = "done" =>
            \/ /\ rf_file_path \in rf_repo
               /\ InsideRoot(ReadLocation(rf_file_path))
               /\ rf_disk_reads = << rf_file_path >>
               /\ Last(rf_emitted).custom_fields.success
            \/ /\ rf_disk_reads = << >>
               /\ rf_emitted = << [kind |-> "final", content |-> FallbackText,
                                   custom_fields |-> [success |-> FALSE]] >>

\* The extractor answered with an absolute path outside the root while the
\* repository has files: the fallback was sent and nothing was read.
C11_Witness ==
    /\ rf_pc = "done"
    /\ rf_repo # {}
    /\ rf_file_path = "/etc/passwd"
    /\ ~InsideRoot(ReadLocation(rf_file_path))
    /\ rf_disk_reads = << >>
    /\ Last(rf_emitted).content = FallbackText

(***************************************************************************)
(* The wait for the human (checked under Spec).                            *)
(***************************************************************************)
\* C12: while the run waits for the human it calls no model, runs no tool and
\* records nothing, and it leaves the wait only by a step that takes a reply:
\* to the end of the run when the reply is "q" or "stop", to the recording of
\* the iteration otherwise.  Dispatching a tool never waits for a reply: it
\* goes on to the rest of the iteration, or raises, in the same step.
C12_SuspendedUntilReply ==
    [][\A i \in Invocations :
        /\ pc[i] = "awaiting_human" =>
            /\ model_calls'[i] = model_calls[i]
            /\ tool_runs'[i] = tool_runs[i]
            /\ memory'[i] = memory[i]
            /\ full_message_history'[i] = full_message_history[i]
            /\ loop_count'[i] = loop_count[i]
            /\ pc'[i] \in {"awaiting_human", "returned", "recording"}
            /\ pc'[i] # "awaiting_human" =>
                /\ Len(incoming'[i]) = Len(incoming[i]) + 1
                /\ SubSeq(incoming'[i], 1, Len(incoming[i])) = incoming[i]
                /\ pc'[i] = "returned" <=> Last(incoming'[i]) \in {"q", "stop"}
        /\ pc[i] = "dispatching" =>
            /\ incoming'[i] = incoming[i]
            /\ outgoing'[i] = outgoing[i]
            /\ pc'[i] \in {"dispatching", "dispatched", "returned", "raised"}]_vars

\* The human answered something other than a stop token in the first
\* iteration, and the loop has resumed to record that iteration.
C12_Witness ==
    /\ feedback_tool[1]
    /\ pc[1] = "recording"
    /\ loop_count[1] = 1
    /\ incoming[1] = << "go on" >>
    /\ feedback[1] = "go on"
    /\ Len(memory[1]) = 0

(***************************************************************************)
(* Two concurrent invocations (checked under ConcSpec).                    *)
(***************************************************************************)
\* The transcript, the memory store and the human-tool conversation state of
\* invocation j.
OwnState(j) ==
    << full_message_history[j], memory[j], current_inbound_msg[j], incoming[j],
       outgoing[j] >>

C14_FinishOrStopReturns ==
    \A i \in Invocations :
        /\ action[i].name = FINISH_NAME => pc[i] \in {"dispatching", "returned"}
        /\ (feedback_tool[i] /\ feedback[i] \in StopTokens) => pc[i] = "returned"
        /\ pc[i] = "returned" =>
                \/ action[i].name = FINISH_NAME
                \/ feedback_tool[i] /\ feedback[i] \in StopTokens
        /\ pc[i] # "raised"

(***************************************************************************)
(* The memory document of an iteration (checked under Spec).               *)
(***************************************************************************)
\* C15: with a human-input tool, the document about to be inserted already
\* ends with the feedback, and the k-th document in memory is the one document
\* of the k-th recorded iteration: its model reply, its observation and the
\* k-th feedback of the human.
C15_FeedbackInMemoryDocument ==
    \A i \in Invocations :
        feedback_tool[i] =>
            /\ Len(memory[i]) = Observations(i)
            /\ pc[i] = "recording" =>
                /\ feedback[i] \notin StopTokens
                /\ memory_to_add[i] =
                        ReplyAndResult(assistant_reply[i], result[i]) \o "\n" \o feedback[i]
                /\ Len(memory[i]) = loop_count[i] - 1
            /\ \A k \in 1..Len(memory[i]) :
                /\ incoming[i][k] \notin StopTokens
                /\ memory[i][k].page_content =
                        ReplyAndResult(full_message_history[i][3 * k - 1].content,
                                       full_message_history[i][3 * k].content)
                            \o "\n" \o incoming[i][k]

\* The first iteration listed the repository, the human said "go on", and the
\* one document in memory holds the reply, the listing and that feedback.
C15_Witness ==
    /\ feedback_tool[1]
    /\ Len(memory[1]) = 1
    /\ incoming[1][1] = "go on"
    /\ memory[1][1].page_content =
            ReplyAndResult(ReplyListRepo,
                           ResultOf(AutoGPTAction(ListRepoToolName, NoArgs), "ok"))
                \o "\ngo on"

(***************************************************************************)
(* The transcript (checked under Spec).                                    *)
(***************************************************************************)
\* C16: every step leaves the transcript it found as a prefix of the
\* transcript it leaves, and the entries of the transcript come in threes:
\* the user prompt, the model's reply, the observation as a system message.
C16_TranscriptGrowsInOrder ==
    [][\A i \in Invocations :
        LET old == full_message_history[i]
            new == full_message_history'[i]
        IN  /\ Len(old) <= Len(new)
            /\ SubSeq(new, 1, Len(old)) = old
            /\ \A k \in 1..Len(new) :
                CASE k % 3 = 1 -> new[k] = HumanMessage(user_input)
                  [] k % 3 = 2 -> new[k].role = "ai"
                  [] OTHER     -> new[k].role = "system"
            /\ Len(new) > Len(old) =>
                \/ /\ Len(old) % 3 = 0
                   /\ new = old \o << HumanMessage(user_input),
                                      AIMessage(assistant_reply'[i]) >>
                \/ /\ Len(old) % 3 = 2
                   /\ new = Append(old, SystemMessage(result[i]))]_vars

\* Two iterations are on the transcript: six entries, the fourth the second
\* user prompt.
C16_Witness ==
    /\ pc[1] = "loop"
    /\ Len(full_message_history[1]) = 6
    /\ full_message_history[1][4] = HumanMessage(user_input)
    /\ full_message_history[1][6] = SystemMessage(result[1])

(***************************************************************************)
(* The advertised commands (checked under Spec).                           *)
(***************************************************************************)
\* C17: right after the dispatch of an action whose name was advertised in the
\* prompt, the result is what that tool returned; the "Unknown command" result
\* comes only with a name that was not advertised.
C17_AdvertisedCommandsDispatched ==
    \A i \in Invocations :
        pc[i] = "dispatched" =>
            /\ action[i].name \in Advertised(i) =>
                    result[i] = "Command " \o action[i].name \o " returned: "
                                    \o observation[i]
            /\ result[i] = UnknownCommandText(action[i].name) =>
                    action[i].name \notin Advertised(i)

(***************************************************************************)
(* The messages of repo_inspector_func (checked under InspectorSpec).      *)
(***************************************************************************)
\* The handler's run is over: it returned or an exception left it.
RiOver == ri_pc \in {"done", "raised"}

=============================================================================
